---- MODULE Spec2Model ----
(***************************************************************************)
(* State-machine model of the gladiapy v2 clients:                         *)
(*   InitializeSessionRequest.to_json     (the body of the handshake)      *)
(*   GladiaWebsocketClient.connect        (the session-creation handshake) *)
(*   GladiaWebsocketClient, GladiaRestClient (the other HTTP calls)        *)
(*   GladiaWebsocketClientSession         (connect_and_start, the send     *)
(*                                         path, disconnect, the callback  *)
(*                                         registry and the four handlers  *)
(*                                         on_open / on_close / on_error / *)
(*                                         on_message given to the         *)
(*                                         WebSocketApp)                   *)
(* One client and the one session object it returns are modelled.  Every   *)
(* WebSocketApp the session creates is a "connection" 1..MaxConns with its *)
(* own run_forever thread; the remote end and the websocket library are    *)
(* the environment.                                                        *)
(***************************************************************************)
EXTENDS Naturals, Sequences, FiniteSets

VARIABLES
    sess,     \* the session object returned by connect: NoSession or [id, url]
    ws,       \* session._ws: 0 is None, c > 0 is the WebSocketApp of connection c
    thread,   \* session._thread: 0 is None, c > 0 is the thread running connection c
    conn,     \* conn[c]: state of WebSocketApp c and of its run_forever thread
    inbox,    \* inbox[c]: text frames sent by the remote, not yet read by the loop
    nframes,  \* number of frames the remote has put on the wire so far
    cb,       \* the callback registry: cb[slot] = 0 is None, h > 0 is handler h
    phase,    \* last lifecycle call made on the session object
    last,     \* what the last call or handler run did (its inputs and its outcome)
    pending,  \* session-creation POSTs of connect() calls that await their response
    sender,   \* the send call a second thread is in, past its guard ("idle": none)
    req,      \* the InitializeSessionRequest the application is building
    wire,     \* the frames the session has written on its socket, oldest first
    held      \* the frame a receive loop has read and not yet given to on_message

vars == <<sess, ws, thread, conn, inbox, nframes, cb, phase, last,
          pending, sender, req, wire, held>>

----------------------------------------------------------------------------
(* Bounds of the model.                                                    *)

MaxConns == 2      \* WebSocketApp objects one session object may create
MaxFrames == 2     \* inbound frames the remote sends in one run
MaxHandler == 1    \* distinct handler objects an application registers per slot
MaxReplaced == 2   \* handler objects registered in turn on the transcript slot
MaxCallers == 2    \* threads that call connect() on the one client at a time
MaxWire == 4       \* frames a session writes on its socket in one run
MaxBuf == 2        \* bytes in a buffer given to send_audio_binary

Conns == 1..MaxConns

----------------------------------------------------------------------------
(* Event types and the callback registry.                                  *)

\* ws_models.events: the 16 wire values of `type`.
EventTypes ==
    { "audio_chunk", "stop_recording", "speech_start", "speech_end",
      "transcript", "translation", "named_entity_recognition",
      "sentiment_analysis", "post_transcript", "post_final_transcript",
      "post_chapterization", "post_summarization", "start_session",
      "end_session", "start_recording", "end_recording" }

\* A dispatch chain that ends in an else branch: every frame that is no
\* translation is handed to the transcript handler.
RouteWithElse(t) ==
    CASE t = "translation" -> "_on_translation"
      [] OTHER             -> "_on_transcript"

\* A dispatch chain with the branches of two pairs of kinds exchanged:
\* speech_start reaches the speech_end handler and post_transcript the
\* final-transcript handler, and the other way round.
RouteSwapped(t) ==
    CASE t = "speech_start"             -> "_on_speech_end"
      [] t = "speech_end"               -> "_on_speech_start"
      [] t = "transcript"               -> "_on_transcript"
      [] t = "translation"              -> "_on_translation"
      [] t = "named_entity_recognition" -> "_on_ner"
      [] t = "sentiment_analysis"       -> "_on_sentiment"
      [] t = "post_transcript"          -> "_on_final_transcript"
      [] t = "post_final_transcript"    -> "_on_post_transcript"
      [] t = "post_chapterization"      -> "_on_chapterization"
      [] t = "post_summarization"       -> "_on_summarization"
      [] t = "audio_chunk"              -> "_on_audio_ack"
      [] t = "stop_recording"           -> "_on_stop_ack"
      [] t = "start_session"            -> "_on_start_session"
      [] t = "end_session"              -> "_on_end_session"
      [] t = "start_recording"          -> "_on_start_recording"
      [] t = "end_recording"            -> "_on_end_recording"
      [] OTHER                          -> "none"

\* The attribute of the session that on_message consults for an event type;
\* "none" when no branch of the if/elif chain names the type.
Route(t) ==
    CASE t = "speech_start"             -> "_on_speech_start"
      [] t = "speech_end"               -> "_on_speech_end"
      [] t = "transcript"               -> "_on_transcript"
      [] t = "translation"              -> "_on_translation"
      [] t = "named_entity_recognition" -> "_on_ner"
      [] t = "sentiment_analysis"       -> "_on_sentiment"
      [] t = "post_transcript"          -> "_on_post_transcript"
      [] t = "post_final_transcript"    -> "_on_final_transcript"
      [] t = "post_chapterization"      -> "_on_chapterization"
      [] t = "post_summarization"       -> "_on_summarization"
      [] t = "audio_chunk"              -> "_on_audio_ack"
      [] t = "stop_recording"           -> "_on_stop_ack"
      [] t = "start_session"            -> "_on_start_session"
      [] t = "end_session"              -> "_on_end_session"
      [] t = "start_recording"          -> "_on_start_recording"
      [] t = "end_recording"            -> "_on_end_recording"
      [] OTHER                          -> "none"

\* The attribute in which the callback setter of an event kind stores the
\* application's handler: set_on_speech_started_callback stores into
\* _on_speech_start, and so on for the 16 setters; "none" for a kind that
\* has no setter.
SetterSlot(t) ==
    CASE t = "speech_start"             -> "_on_speech_start"
      [] t = "speech_end"               -> "_on_speech_end"
      [] t = "transcript"               -> "_on_transcript"
      [] t = "translation"              -> "_on_translation"
      [] t = "named_entity_recognition" -> "_on_ner"
      [] t = "sentiment_analysis"       -> "_on_sentiment"
      [] t = "post_transcript"          -> "_on_post_transcript"
      [] t = "post_final_transcript"    -> "_on_final_transcript"
      [] t = "post_chapterization"      -> "_on_chapterization"
      [] t = "post_summarization"       -> "_on_summarization"
      [] t = "audio_chunk"              -> "_on_audio_ack"
      [] t = "stop_recording"           -> "_on_stop_ack"
      [] t = "start_session"            -> "_on_start_session"
      [] t = "end_session"              -> "_on_end_session"
      [] t = "start_recording"          -> "_on_start_recording"
      [] t = "end_recording"            -> "_on_end_recording"
      [] OTHER                          -> "none"

EventSlots == { Route(t) : t \in EventTypes }

LifecycleSlots == { "_on_connected", "_on_disconnected", "_on_error" }

Slots == EventSlots \cup LifecycleSlots

\* The pydantic models whose `data` field has no default: validation fails
\* when the frame has no `data`.  The other models declare data Optional
\* (or, for LifecycleEvent, declare no data at all).
DataRequired ==
    { "speech_start", "speech_end", "transcript", "sentiment_analysis",
      "post_transcript", "post_final_transcript" }

\* Model.model_validate(data) for the model class of event type t, on a JSON
\* object of the given shape:
\*   "full"       every field of the model is present and well formed
\*   "nodata"     the envelope is there, the `data` member is not
\*   "noenvelope" session_id / created_at are missing
Validates(t, shape) ==
    CASE shape = "full"       -> TRUE
      [] shape = "nodata"     -> t \notin DataRequired
      [] shape = "noenvelope" -> FALSE

----------------------------------------------------------------------------
(* Inbound frames and HTTP responses: the inputs of the model.             *)

NoFrame == [seq |-> 0, json |-> "none", type |-> "none", shape |-> "none"]

\* Text of a frame: not JSON at all, JSON that is no object, or a JSON object
\* with a `type` member ("none": the member is missing) and a shape.
FrameTexts ==
    { [json |-> "invalid", type |-> "none", shape |-> "none"],
      [json |-> "nonobject", type |-> "none", shape |-> "none"],
      [json |-> "object", type |-> "none", shape |-> "full"],
      [json |-> "object", type |-> "bogus", shape |-> "full"] }
    \cup
    [json : {"object"}, type : {"transcript", "translation"},
     shape : {"full", "nodata"}]

\* No frame is between the socket and on_message.
NoHeld == [c |-> 0, frame |-> NoFrame]

NoSession == [id |-> "", url |-> ""]

\* Body of the HTTP response to the session-creation POST.  kind: what
\* resp.json() gives; status: the statusCode/status member (0: absent);
\* id, url, message: the members of that name ("": absent or empty).
Bodies ==
    { [kind |-> "nonjson", status |-> 0, id |-> "", url |-> "", message |-> ""],
      [kind |-> "nonobject", status |-> 0, id |-> "", url |-> "", message |-> ""],
      [kind |-> "object", status |-> 0, id |-> "", url |-> "", message |-> ""],
      [kind |-> "object", status |-> 401, id |-> "", url |-> "",
       message |-> "Unauthorized"],
      [kind |-> "object", status |-> 403, id |-> "", url |-> "", message |-> ""],
      [kind |-> "object", status |-> 0, id |-> "sess-1", url |-> "", message |-> ""],
      [kind |-> "object", status |-> 0, id |-> "sess-1", url |-> "wss://sess-1",
       message |-> ""] }

\* The default_message a caller gives to GladiaError.from_response.
DefaultMessage == "default_message"

HttpStatuses == { 200, 401, 500 }

----------------------------------------------------------------------------
(* InitializeSessionRequest and its serialization.                         *)

\* The fields of the request that carry a feature flag, a feature
\* sub-config or a container of them, named by their path; region, which
\* to_json removes; encoding, a primitive that is never None.  The other
\* primitive fields behave like encoding.
RtFields ==
    { "realtime_processing.custom_vocabulary",
      "realtime_processing.custom_vocabulary_config",
      "realtime_processing.custom_spelling",
      "realtime_processing.custom_spelling_config",
      "realtime_processing.translation",
      "realtime_processing.translation_config" }

PpFields ==
    { "post_processing.summarization",
      "post_processing.summarization_config" }

TcFields == { "realtime_processing.translation_config.target_languages" }

TopFields ==
    { "region", "encoding", "realtime_processing", "post_processing",
      "callback", "callback_config" }

ReqFields == TopFields \cup RtFields \cup PpFields \cup TcFields

\* The dataclass instance a nested field belongs to ("": the request).
Parent(k) ==
    CASE k \in RtFields -> "realtime_processing"
      [] k \in PpFields -> "post_processing"
      [] k \in TcFields -> "realtime_processing.translation_config"
      [] OTHER          -> ""

\* A feature flag and the field that holds its sub-config.
Features ==
    { [flag |-> "realtime_processing.custom_vocabulary",
       config |-> "realtime_processing.custom_vocabulary_config"],
      [flag |-> "realtime_processing.custom_spelling",
       config |-> "realtime_processing.custom_spelling_config"],
      [flag |-> "realtime_processing.translation",
       config |-> "realtime_processing.translation_config"],
      [flag |-> "post_processing.summarization",
       config |-> "post_processing.summarization_config"],
      [flag |-> "callback", config |-> "callback_config"] }

\* The values a field takes: "object" is an instance of the field's
\* dataclass, "[]" an empty list, "list" a list of strings, "[null]" a
\* list one of whose items is None (no dataclass checks the type of what
\* it is given).
FieldValues(k) ==
    CASE k = "region"   -> { "us-west" }
      [] k = "encoding" -> { "wav/pcm" }
      [] k \in TcFields -> { "[]", "list", "[null]" }
      [] k \in { f.config : f \in Features }
             \cup { "realtime_processing", "post_processing" }
                        -> { "None", "object" }
      [] k \in { "post_processing.summarization", "callback" }
                        -> { "None", "False", "True" }
      [] OTHER          -> { "False", "True" }

\* InitializeSessionRequest(): every field at its default.
DefaultRequest ==
    [k \in ReqFields |->
        CASE k = "region"   -> "us-west"
          [] k = "encoding" -> "wav/pcm"
          [] k \in TcFields -> "[]"
          [] k \in { f.flag : f \in Features } -> "False"
          [] OTHER          -> "None"]

\* _dataclass_to_dict with exclude_none: the fields it leaves out of the
\* dict of their dataclass are those that are None and the lists that
\* are empty; every other value is stored under the field's name.  The
\* items of a list that are no dataclass are appended as they are.
Skipped(v) == v = "None" \/ v = "[]"

\* A field is in the output when it is not skipped and the dataclass it
\* belongs to is itself in the output.
RECURSIVE Emitted(_, _)
Emitted(r, k) ==
    /\ ~Skipped(r[k])
    /\ Parent(k) # "" => Emitted(r, Parent(k))

\* _dataclass_to_dict(request, exclude_none=True) as the set of its
\* <<path, value>> members.
DataclassToDict(r) == { <<k, r[k]>> : k \in { f \in ReqFields : Emitted(r, f) } }

\* to_json(): the dict without its region member.
ToJsonBody(r) == { m \in DataclassToDict(r) : m[1] # "region" }

Keys(body) == { m[1] : m \in body }

\* The values that are or hold a JSON null.
HoldsNull(v) == v = "None" \/ v = "[null]"

----------------------------------------------------------------------------
(* The record left by each step.                                           *)

Idle ==
    [ op |-> "init", c |-> 0, frame |-> NoFrame, ret |-> "none",
      raised |-> "none", inv |-> << >>, escaped |-> FALSE, alive |-> TRUE,
      tx |-> 0, http |-> 0, errStatus |-> 0, reqs |-> 0, info |-> NoSession,
      body |-> {}, slot |-> "none", h |-> 0,
      buf |-> << >>, size |-> 0, payload |-> << >>, opcode |-> "none", text |-> "",
      err |-> [closure |-> FALSE, msg |-> << >>], code |-> "None",
      errMsg |-> "", headers |-> {}, url |-> "" ]

Invocation(slot, out) == [slot |-> slot, h |-> cb[slot], out |-> out]

Outcomes == { "ok", "raise" }

Init ==
    /\ sess = NoSession
    /\ ws = 0
    /\ thread = 0
    /\ conn = [c \in Conns |-> "none"]
    /\ inbox = [c \in Conns |-> << >>]
    /\ nframes = 0
    /\ cb = [s \in Slots |-> 0]
    /\ phase = "new"
    /\ last = Idle
    /\ pending = 0
    /\ sender = "idle"
    /\ req = DefaultRequest
    /\ wire = << >>
    /\ held = NoHeld

----------------------------------------------------------------------------
(* Building and serializing a request.                                     *)

\* The application assigns a field of the request (the dataclasses are
\* not frozen).
SetField(k, v) ==
    /\ req' = [req EXCEPT ![k] = v]
    /\ last' = [Idle EXCEPT !.op = "set_field"]
    /\ UNCHANGED <<sess, ws, thread, conn, inbox, nframes, cb, phase,
                   pending, sender, wire, held>>

\* request.to_json().
ToJson ==
    /\ last' = [Idle EXCEPT !.op = "to_json", !.body = ToJsonBody(req)]
    /\ UNCHANGED <<sess, ws, thread, conn, inbox, nframes, cb, phase,
                   pending, sender, req, wire, held>>

----------------------------------------------------------------------------
(* GladiaWebsocketClient.connect and GladiaError.from_response.            *)

\* GladiaError.from_response(resp): the exception that leaves it.  A body
\* that is not JSON is read as {}; a JSON body that is no object has no
\* .get, so the AttributeError of data.get(...) leaves from_response;
\* otherwise status_code is the body's statusCode/status member when it has
\* one and the HTTP status code when it has none.
FromResponse(status, body) ==
    CASE body.kind = "nonjson" ->
           [raised |-> "GladiaError", errStatus |-> status,
            errMsg |-> DefaultMessage]
      [] body.kind = "nonobject" ->
           [raised |-> "AttributeError", errStatus |-> 0, errMsg |-> ""]
      [] OTHER ->
           [raised |-> "GladiaError",
            errStatus |-> IF body.status # 0 THEN body.status ELSE status,
            errMsg |-> IF body.message # "" THEN body.message ELSE DefaultMessage]

\* The message of the error a call raises on its response ("": the call
\* raises no error built by from_response).
ErrMsg(status, body) ==
    IF status >= 400 THEN FromResponse(status, body).errMsg ELSE ""

\* The outcome of connect() on a response: the exception raised ("none" when
\* it returns) and the session it returns.
ConnectOutcome(status, body) ==
    IF status >= 400
    THEN [raised |-> FromResponse(status, body).raised,
          errStatus |-> FromResponse(status, body).errStatus,
          session |-> NoSession]
    ELSE CASE body.kind = "nonjson" ->
                [raised |-> "JSONDecodeError", errStatus |-> 0, session |-> NoSession]
           [] body.kind = "nonobject" ->
                [raised |-> "AttributeError", errStatus |-> 0, session |-> NoSession]
           [] body.id = "" \/ body.url = "" ->
                [raised |-> "ValueError", errStatus |-> 0, session |-> NoSession]
           [] OTHER ->
                [raised |-> "none", errStatus |-> 0,
                 session |-> [id |-> body.id, url |-> body.url]]

\* A client that repeats a request the server failed with a 5xx status.
RequestsWithRetry(status) == IF status >= 500 THEN 2 ELSE 1

\* The HTTP requests a method issues once it reaches its request: each has
\* one self._http.post / get / delete (self.session.* in the batch client)
\* in straight-line code, whatever the status of the response.
RequestsSent(status) == 1

\* client.connect(init_request): one POST, then the session object or an
\* exception.  The session constructor leaves _ws and _thread None and
\* every callback None.
ClientConnect(status, body) ==
    /\ sess = NoSession
    /\ sess' = ConnectOutcome(status, body).session
    /\ last' = [Idle EXCEPT !.op = "connect", !.http = status,
                            !.reqs = RequestsSent(status),
                            !.raised = ConnectOutcome(status, body).raised,
                            !.errStatus = ConnectOutcome(status, body).errStatus,
                            !.errMsg = ErrMsg(status, body),
                            !.ret = IF ConnectOutcome(status, body).raised = "none"
                                    THEN "session" ELSE "none"]
    /\ UNCHANGED <<ws, thread, conn, inbox, nframes, cb, phase, pending, sender, req, wire, held>>

\* connect() as two steps of its calling thread: the POST leaves, and
\* later its response is handled.  Nothing in connect() or in the client
\* object is tested or taken before the POST is issued.
ConnectSend ==
    /\ pending < MaxCallers
    /\ pending' = pending + 1
    /\ last' = [Idle EXCEPT !.op = "connect_send"]
    /\ UNCHANGED <<sess, ws, thread, conn, inbox, nframes, cb, phase, sender, req, wire, held>>

\* The response of a pending POST arrives.  sess keeps the first session
\* object a connect() returned; the objects of later calls go to their
\* callers.
ConnectReceive(status, body) ==
    /\ pending > 0
    /\ pending' = pending - 1
    /\ sess' = IF sess = NoSession THEN ConnectOutcome(status, body).session ELSE sess
    /\ last' = [Idle EXCEPT !.op = "connect", !.http = status,
                            !.reqs = RequestsSent(status),
                            !.raised = ConnectOutcome(status, body).raised,
                            !.errStatus = ConnectOutcome(status, body).errStatus,
                            !.errMsg = ErrMsg(status, body),
                            !.ret = IF ConnectOutcome(status, body).raised = "none"
                                    THEN "session" ELSE "none"]
    /\ UNCHANGED <<ws, thread, conn, inbox, nframes, cb, phase, sender, req, wire, held>>

----------------------------------------------------------------------------
(* The other HTTP calls: get_result and delete_result of the live client,  *)
(* and the batch client GladiaRestClient.                                  *)

\* Calls that parse the body of a successful response into a model.
ParsingOps ==
    { "live_get_result", "upload", "pre_recorded", "get_result", "get_results" }

DeleteOps == { "live_delete_result", "delete_result" }

HttpOps == { "connect" } \cup ParsingOps \cup DeleteOps

\* What a call does with its response.  valid: the JSON object satisfies the
\* response model of the call.  ret is "none" when the call raises; the
\* live delete_result returns True, the batch one returns None.
RestOutcome(op, status, body, valid) ==
    IF status >= 400
    THEN [raised |-> FromResponse(status, body).raised,
          errStatus |-> FromResponse(status, body).errStatus, ret |-> "none"]
    ELSE IF op \in DeleteOps
    THEN [raised |-> "none", errStatus |-> 0,
          ret |-> IF op = "live_delete_result" THEN "True" ELSE "None"]
    ELSE CASE body.kind = "nonjson" ->
                [raised |-> "JSONDecodeError", errStatus |-> 0, ret |-> "none"]
           [] body.kind = "nonobject" \/ ~valid ->
                [raised |-> "ValidationError", errStatus |-> 0, ret |-> "none"]
           [] OTHER ->
                [raised |-> "none", errStatus |-> 0, ret |-> "model"]

\* get_result, delete_result (both clients), pre_recorded, get_results
\* and, once its file is open, upload: one request, then the >= 400 test,
\* then the result.
RestCall(op, status, body, valid) ==
    /\ last' = [Idle EXCEPT !.op = op, !.http = status,
                            !.reqs = RequestsSent(status),
                            !.raised = RestOutcome(op, status, body, valid).raised,
                            !.errStatus = RestOutcome(op, status, body, valid).errStatus,
                            !.errMsg = ErrMsg(status, body),
                            !.ret = RestOutcome(op, status, body, valid).ret]
    /\ UNCHANGED <<sess, ws, thread, conn, inbox, nframes, cb, phase,
                   pending, sender, req, wire, held>>

\* upload(file_path) on a path that open() cannot read: the OSError of
\* open() leaves upload before any request is made.
UploadUnreadable ==
    /\ last' = [Idle EXCEPT !.op = "upload", !.raised = "OSError"]
    /\ UNCHANGED <<sess, ws, thread, conn, inbox, nframes, cb, phase,
                   pending, sender, req, wire, held>>

----------------------------------------------------------------------------
(* The session object: lifecycle and send path.                            *)

HasSession == sess # NoSession

NumConns == Cardinality({c \in Conns : conn[c] # "none"})

\* The receive loops (run_forever threads) that are running.
Running == {c \in Conns : conn[c] \in {"connecting", "open", "closing"}}

\* State of the WebSocketApp that _ws refers to.
WsState(w) == IF w = 0 THEN "none" ELSE conn[w]

\* An accessor that reports the url in both members.
SessionInfoUrlOnly(s) == [id |-> s.url, url |-> s.url]

\* The dict get_session_info builds from _id and _url.
SessionInfo(s) == [id |-> s.id, url |-> s.url]

\* get_session_info(): reads _id and _url, writes nothing.
GetSessionInfo ==
    /\ HasSession
    /\ last' = [Idle EXCEPT !.op = "get_session_info", !.info = SessionInfo(sess)]
    /\ UNCHANGED <<sess, ws, thread, conn, inbox, nframes, cb, phase,
                   pending, sender, req, wire, held>>

\* The api_key the application gave to GladiaWebsocketClient, and the
\* user agent string of the package.
ApiKey == "api-key"

UserAgent == "USER_AGENT"

\* A session that gives its WebSocketApp the headers of the client's
\* requests.Session: the user agent and the key.
HttpHeaders == { << "User-Agent", UserAgent >>, << "X_GLADIA_KEY", ApiKey >> }

\* headers = ["User-Agent: " + C.USER_AGENT], given to the WebSocketApp.
WsHeaders == { << "User-Agent", UserAgent >> }

\* connect_and_start(): builds a new WebSocketApp on the session's url,
\* starts a daemon thread on its run_forever, sleeps 0.5 s and returns True.
\* Nothing is tested before the new objects are stored in _ws and _thread.
ConnectAndStart ==
    /\ HasSession
    /\ NumConns < MaxConns
    /\ LET c == NumConns + 1 IN
         /\ conn' = [conn EXCEPT ![c] = "connecting"]
         /\ ws' = c
         /\ thread' = c
         /\ last' = [Idle EXCEPT !.op = "connect_and_start", !.c = c, !.ret = "True",
                                 !.headers = WsHeaders, !.url = sess.url]
    /\ phase' = "started"
    /\ UNCHANGED <<sess, inbox, nframes, cb, pending, sender, req, wire, held>>

\* A connect_and_start that returns once the socket is open.
ReturnsWhenOpen(st) == st = "open"

\* What connect_and_start requires of the connection, in state st after
\* the sleep, before it returns: nothing (`time.sleep(0.5); return True`).
Returns(st) == TRUE

\* connect_and_start() as the two steps of its calling thread, with the
\* sleep between them.  Up to the sleep: the WebSocketApp and its thread
\* are created, stored and started.
StartBegin ==
    /\ HasSession
    /\ phase # "starting"
    /\ NumConns < MaxConns
    /\ LET c == NumConns + 1 IN
         /\ conn' = [conn EXCEPT ![c] = "connecting"]
         /\ ws' = c
         /\ thread' = c
         /\ last' = [Idle EXCEPT !.op = "start_begin", !.c = c,
                                 !.headers = WsHeaders, !.url = sess.url]
    /\ phase' = "starting"
    /\ UNCHANGED <<sess, inbox, nframes, cb, pending, sender, req, wire, held>>

\* After the sleep: `return True`.
StartReturn ==
    /\ phase = "starting"
    /\ Returns(WsState(ws))
    /\ phase' = "started"
    /\ last' = [Idle EXCEPT !.op = "connect_and_start", !.c = ws, !.ret = "True"]
    /\ UNCHANGED <<sess, ws, thread, conn, inbox, nframes, cb, pending, sender,
                   req, wire, held>>

\* A send path without its guard.
NotConnectedUnchecked(w) == FALSE

\* `if not self._ws: return False` of the three send methods.
NotConnected(w) == w = 0

\* WebSocketApp.send on connection state st: the frame is written when the
\* socket is open; otherwise the library raises
\* WebSocketConnectionClosedException.
AppSend(st) ==
    IF st = "open" THEN [raised |-> "none", tx |-> 1]
    ELSE [raised |-> "WebSocketConnectionClosedException", tx |-> 0]

\* send_audio_binary, send_audio_json and send_stop_signal share one shape:
\* the guard, one WebSocketApp.send, return True.
SendResult(op, w) ==
    IF NotConnected(w)
    THEN [Idle EXCEPT !.op = op, !.c = w, !.ret = "False"]
    ELSE [Idle EXCEPT !.op = op, !.c = w,
                      !.raised = AppSend(WsState(w)).raised,
                      !.tx = AppSend(WsState(w)).tx,
                      !.ret = IF AppSend(WsState(w)).raised = "none"
                              THEN "True" ELSE "none"]

\* The send methods without their arguments and without the frame they
\* write (SendAudioBinaryFrame and SendStopSignalFrame have both).
Send(op) ==
    /\ HasSession
    /\ last' = SendResult(op, ws)
    /\ UNCHANGED <<sess, ws, thread, conn, inbox, nframes, cb, phase, pending, sender, req, wire, held>>

SendOps == { "send_audio_binary", "send_audio_json", "send_stop_signal" }

SendAudioBinary == Send("send_audio_binary")

SendAudioJson == Send("send_audio_json")

SendStopSignal == Send("send_stop_signal")

\* A send that ignores size.
SliceWhole(buf, size) == buf

\* audio_data[:size] for size >= 0: the first size bytes, all of them when
\* size exceeds the length.
Slice(buf, size) == SubSeq(buf, 1, IF size < Len(buf) THEN size ELSE Len(buf))

\* send_audio_binary(audio_data, size) with its arguments: the frame
\* handed to WebSocketApp.send is audio_data[:size] with opcode 0x2.
SendAudioBinaryFrame(buf, size) ==
    /\ HasSession
    /\ Len(wire) < MaxWire
    /\ LET r == SendResult("send_audio_binary", ws) IN
         /\ last' = [r EXCEPT !.buf = buf, !.size = size,
                              !.opcode = IF r.tx = 1 THEN "binary" ELSE "none",
                              !.payload = IF r.tx = 1 THEN Slice(buf, size)
                                          ELSE << >>]
         /\ wire' = IF r.tx = 1
                    THEN Append(wire, [opcode |-> "binary", text |-> ""])
                    ELSE wire
    /\ UNCHANGED <<sess, ws, thread, conn, inbox, nframes, cb, phase, pending,
                   sender, req, held>>

\* json.dumps({"type": t}).
JsonDumpsType(t) == "{\"type\": \"" \o t \o "\"}"

\* A stop signal that names the wrong event.
StopPayloadEndRecording == JsonDumpsType("end_recording")

\* The payload of send_stop_signal: json.dumps({"type": events.STOP_RECORDING}).
StopPayload == JsonDumpsType("stop_recording")

\* A stop signal that also shuts the socket.
ClosedByStop(st) == IF st \in {"connecting", "open"} THEN "closing" ELSE st

\* What send_stop_signal does to the WebSocketApp in state st besides the
\* send: nothing; it calls neither close() nor anything else on it.
AfterStop(st) == st

\* send_stop_signal() with the frame it writes: a text frame.
SendStopSignalFrame ==
    /\ HasSession
    /\ Len(wire) < MaxWire
    /\ LET r == SendResult("send_stop_signal", ws) IN
         /\ last' = [r EXCEPT !.opcode = IF r.tx = 1 THEN "text" ELSE "none",
                              !.text = IF r.tx = 1 THEN StopPayload ELSE ""]
         /\ wire' = IF r.tx = 1
                    THEN Append(wire, [opcode |-> "text", text |-> StopPayload])
                    ELSE wire
         /\ conn' = IF ws = 0 THEN conn ELSE [conn EXCEPT ![ws] = AfterStop(@)]
    /\ UNCHANGED <<sess, ws, thread, inbox, nframes, cb, phase, pending, sender, req, held>>

\* The send methods as the two steps of a thread that runs beside the
\* application thread.  First the guard `if not self._ws`: the call
\* returns False, or goes on to its write.
SendGuard(op) ==
    /\ HasSession
    /\ sender = "idle"
    /\ IF NotConnected(ws)
       THEN /\ last' = [Idle EXCEPT !.op = op, !.c = ws, !.ret = "False"]
            /\ sender' = "idle"
       ELSE /\ last' = [Idle EXCEPT !.op = "send_guard", !.c = ws]
            /\ sender' = op
    /\ UNCHANGED <<sess, ws, thread, conn, inbox, nframes, cb, phase, pending, req, wire, held>>

\* `self._ws.send(...)` evaluates self._ws again: on None the attribute
\* lookup raises AttributeError, on a WebSocketApp the library sends.
WriteOutcome(w) ==
    IF w = 0 THEN [raised |-> "AttributeError", tx |-> 0] ELSE AppSend(WsState(w))

\* Then the write and `return True`.
SendWrite ==
    /\ sender # "idle"
    /\ sender' = "idle"
    /\ last' = [Idle EXCEPT !.op = sender, !.c = ws,
                            !.raised = WriteOutcome(ws).raised,
                            !.tx = WriteOutcome(ws).tx,
                            !.ret = IF WriteOutcome(ws).raised = "none"
                                    THEN "True" ELSE "none"]
    /\ UNCHANGED <<sess, ws, thread, conn, inbox, nframes, cb, phase, pending, req, wire, held>>

\* WebSocketApp.close() on connection state st: keep_running is cleared and
\* the socket, if any, is closed; the run_forever thread then leaves its
\* loop by itself.  When close() raises, the socket is left as it was.
AppClose(st, closeRaises) ==
    IF closeRaises THEN st
    ELSE IF st \in {"connecting", "open"} THEN "closing" ELSE st

\* A disconnect() that closes the socket and keeps the reference.
WsKept(w) == w

\* The value disconnect() leaves in _ws (the finally clause).
WsAfterDisconnect(w) == 0

\* disconnect(): `if self._ws: try: self._ws.close() finally: self._ws = None`.
Disconnect(closeRaises) ==
    /\ HasSession
    /\ IF ws = 0
       THEN /\ last' = [Idle EXCEPT !.op = "disconnect"]
            /\ UNCHANGED <<ws, conn>>
       ELSE /\ conn' = [conn EXCEPT ![ws] = AppClose(conn[ws], closeRaises)]
            /\ ws' = WsAfterDisconnect(ws)
            /\ last' = [Idle EXCEPT !.op = "disconnect", !.c = ws,
                                    !.raised = IF closeRaises THEN "Exception"
                                               ELSE "none"]
    /\ phase' = "disconnected"
    /\ UNCHANGED <<sess, thread, inbox, nframes, cb, pending, sender, req, wire, held>>

\* A registry that keeps the handler it already has.
RegisterFirst(old, h) == IF old = 0 THEN h ELSE old

\* `self._on_x = callback`: the value a setter leaves in a slot that held old.
Register(old, h) == h

\* The callback setters: each stores its argument in its slot (None, here 0,
\* is storable like any other value).
SetCallback(slot, h) ==
    /\ HasSession
    /\ cb' = [cb EXCEPT ![slot] = Register(cb[slot], h)]
    /\ last' = [Idle EXCEPT !.op = "set_callback", !.slot = slot, !.h = h]
    /\ UNCHANGED <<sess, ws, thread, conn, inbox, nframes, phase, pending, sender, req, wire, held>>

----------------------------------------------------------------------------
(* The four handlers connect_and_start gives to the WebSocketApp.  Each    *)
(* yields the callbacks it invokes, in order, and whether an exception     *)
(* leaves the handler.                                                     *)

Nothing == [inv |-> << >>, escaped |-> FALSE]

\* `if self._on_error: self._on_error(msg)`, not guarded by a try.
Report(eOut) ==
    IF cb["_on_error"] # 0
    THEN [inv |-> << Invocation("_on_error", eOut) >>, escaped |-> eOut = "raise"]
    ELSE Nothing

\* on_open(ws).
HandlerOnOpen(oOut) ==
    IF cb["_on_connected"] # 0
    THEN [inv |-> << Invocation("_on_connected", oOut) >>, escaped |-> oOut = "raise"]
    ELSE Nothing

\* The errors run_forever hands to on_error.  msg is str(error), cut into
\* the pieces the `in` tests of on_error can tell apart; closure tells
\* whether the error is the notification of a normal closure (a close
\* frame, opcode 8, code 1000) or a failure of the transport.
Errors ==
    { [closure |-> TRUE,  msg |-> << "fin=1", "opcode=8" >>],
      [closure |-> FALSE, msg |-> << "Connection", "refused" >>],
      [closure |-> FALSE, msg |-> << "timed", "out", "after", "1000", "ms" >>] }

\* ("opcode=8" in msg) or ("1000" in msg) or ("STATUS_NORMAL" in msg)
LooksNormal(msg) ==
    \E i \in 1..Len(msg) : msg[i] \in { "opcode=8", "1000", "STATUS_NORMAL" }

\* The status_code on_close is given: None when the connection ended
\* without a close frame, else the code of the frame.
CloseCodes == { "None", "1000", "1011" }

\* on_error(ws, error): a message that contains "opcode=8", "1000" or
\* "STATUS_NORMAL" (normal) is dropped, any other goes to the error callback.
HandlerOnError(normal, eOut) ==
    IF normal THEN Nothing ELSE Report(eOut)

\* An on_close that reports the close reason outside any try: an error
\* callback that raises ends the handler before the disconnected callback.
HandlerOnCloseUnguarded(hasCode, eOut, dOut) ==
    IF cb["_on_error"] # 0 /\ hasCode /\ eOut = "raise"
    THEN [inv |-> << Invocation("_on_error", eOut) >>, escaped |-> TRUE]
    ELSE [inv |-> (IF cb["_on_error"] # 0 /\ hasCode
                   THEN << Invocation("_on_error", eOut) >> ELSE << >>)
                  \o (IF cb["_on_disconnected"] # 0
                      THEN << Invocation("_on_disconnected", dOut) >> ELSE << >>),
          escaped |-> cb["_on_disconnected"] # 0 /\ dOut = "raise"]

\* on_close(ws, status_code, msg): the close reason goes to the error
\* callback when there is a status code, inside try/except; then the
\* disconnected callback runs.
HandlerOnClose(hasCode, eOut, dOut) ==
    [inv |-> (IF cb["_on_error"] # 0 /\ hasCode
              THEN << Invocation("_on_error", eOut) >> ELSE << >>)
             \o (IF cb["_on_disconnected"] # 0
                 THEN << Invocation("_on_disconnected", dOut) >> ELSE << >>),
     escaped |-> cb["_on_disconnected"] # 0 /\ dOut = "raise"]

\* A dispatcher that reports an event nobody listens to.
UnhandledReported(eOut) == Report(eOut)

\* A frame of a known type whose slot is None: the `and self._on_x` of its
\* branch is false, no later branch matches, on_message returns.
Unhandled(eOut) == Nothing

\* on_message(ws, message): json.loads in a try; data.get("type") outside
\* any try; then the if/elif chain, validation and the handler call inside
\* one try whose except clause reports to the error callback.
HandlerOnMessage(frame, hOut, eOut) ==
    CASE frame.json = "invalid"   -> Report(eOut)
      [] frame.json = "nonobject" -> [inv |-> << >>, escaped |-> TRUE]
      [] OTHER ->
           LET slot == Route(frame.type) IN
           IF slot = "none" THEN Nothing
           ELSE IF cb[slot] = 0 THEN Unhandled(eOut)
           ELSE IF ~Validates(frame.type, frame.shape) THEN Report(eOut)
           ELSE IF hOut = "raise"
                THEN [inv |-> << Invocation(slot, "raise") >> \o Report(eOut).inv,
                      escaped |-> Report(eOut).escaped]
                ELSE [inv |-> << Invocation(slot, "ok") >>, escaped |-> FALSE]

----------------------------------------------------------------------------
(* The websocket library and the remote end.                               *)

\* What WebSocketApp does with an exception that leaves a handler.  Older
\* releases log it and go on ("swallow"); newer ones pass it to the app's
\* on_error handler ("report"), and an exception leaving that call ends
\* run_forever.  normal: the text of the exception happens to look like a
\* normal closure to on_error.
LibAfterEscape(lib, normal, eOut) ==
    IF lib = "swallow"
    THEN [inv |-> << >>, alive |-> TRUE]
    ELSE [inv |-> HandlerOnError(normal, eOut).inv,
          alive |-> ~HandlerOnError(normal, eOut).escaped]

\* A handler run by the loop, with the library's reaction when it escapes.
Ran(h, lib, normal, eOut2) ==
    IF h.escaped
    THEN [inv |-> h.inv \o LibAfterEscape(lib, normal, eOut2).inv,
          escaped |-> TRUE,
          alive |-> LibAfterEscape(lib, normal, eOut2).alive]
    ELSE [inv |-> h.inv, escaped |-> FALSE, alive |-> TRUE]

\* The reactions of the library: log and go on; pass to on_error, which
\* drops the message, reports it, or reports it to a callback that raises.
Reactions ==
    { [lib |-> "swallow", normal |-> FALSE, eOut |-> "ok"],
      [lib |-> "report", normal |-> TRUE, eOut |-> "ok"],
      [lib |-> "report", normal |-> FALSE, eOut |-> "ok"],
      [lib |-> "report", normal |-> FALSE, eOut |-> "raise"] }

\* The remote accepts the connection: run_forever calls on_open.
LibOpen(c, oOut, lib, normal, eOut2) ==
    /\ conn[c] = "connecting"
    /\ LET r == Ran(HandlerOnOpen(oOut), lib, normal, eOut2) IN
         /\ conn' = [conn EXCEPT ![c] = IF r.alive THEN "open" ELSE "closed"]
         /\ last' = [Idle EXCEPT !.op = "on_open", !.c = c, !.inv = r.inv,
                                 !.escaped = r.escaped, !.alive = r.alive]
    /\ UNCHANGED <<sess, ws, thread, inbox, nframes, cb, phase, pending, sender, req, wire, held>>

\* The remote puts one more text frame on the wire of connection c.
ServerSend(c, text) ==
    /\ conn[c] = "open"
    /\ nframes < MaxFrames
    /\ nframes' = nframes + 1
    /\ inbox' = [inbox EXCEPT ![c] =
                    Append(@, [seq |-> nframes + 1, json |-> text.json,
                               type |-> text.type, shape |-> text.shape])]
    /\ last' = [Idle EXCEPT !.op = "server_send", !.c = c]
    /\ UNCHANGED <<sess, ws, thread, conn, cb, phase, pending, sender, req, wire, held>>

\* A loop that hands over the newest pending frame first.
NewestFrame(q) == q[Len(q)]

\* The frame the loop reads next: frames are read in arrival order.
NextFrame(q) == Head(q)

Remove(q, f) == SelectSeq(q, LAMBDA x : x # f)

\* The loop of connection c reads a frame and calls on_message with it.
LibMessage(c, hOut, eOut, lib, normal, eOut2) ==
    /\ conn[c] = "open"
    /\ inbox[c] # << >>
    /\ LET f == NextFrame(inbox[c])
           r == Ran(HandlerOnMessage(f, hOut, eOut), lib, normal, eOut2) IN
         /\ inbox' = [inbox EXCEPT ![c] = Remove(@, f)]
         /\ conn' = [conn EXCEPT ![c] = IF r.alive THEN "open" ELSE "closed"]
         /\ last' = [Idle EXCEPT !.op = "on_message", !.c = c, !.frame = f,
                                 !.inv = r.inv, !.escaped = r.escaped,
                                 !.alive = r.alive]
    /\ UNCHANGED <<sess, ws, thread, nframes, cb, phase, pending, sender, req, wire, held>>

\* The loop of connection c as the two steps of its thread, for the runs in
\* which another thread acts in between.  run_forever tests keep_running,
\* reads one frame from the socket and calls on_message with it; nothing is
\* tested between the read and the call.
LoopRead(c) ==
    /\ held = NoHeld
    /\ conn[c] = "open"
    /\ inbox[c] # << >>
    /\ held' = [c |-> c, frame |-> NextFrame(inbox[c])]
    /\ inbox' = [inbox EXCEPT ![c] = Remove(@, NextFrame(@))]
    /\ last' = [Idle EXCEPT !.op = "loop_read", !.c = c,
                            !.frame = NextFrame(inbox[c])]
    /\ UNCHANGED <<sess, ws, thread, conn, nframes, cb, phase, pending, sender,
                   req, wire>>

\* The second step: on_message runs on the frame the loop holds, whatever
\* has happened to the session object and to the socket since the read.
LoopDispatch(hOut, eOut, lib, normal, eOut2) ==
    /\ held # NoHeld
    /\ LET r == Ran(HandlerOnMessage(held.frame, hOut, eOut), lib, normal, eOut2) IN
         /\ conn' = [conn EXCEPT ![held.c] = IF r.alive THEN @ ELSE "closed"]
         /\ last' = [Idle EXCEPT !.op = "on_message", !.c = held.c,
                                 !.frame = held.frame, !.inv = r.inv,
                                 !.escaped = r.escaped, !.alive = r.alive]
    /\ held' = NoHeld
    /\ UNCHANGED <<sess, ws, thread, inbox, nframes, cb, phase, pending, sender,
                   req, wire>>

\* A transport error (refused or unreachable endpoint, abrupt loss of the
\* connection): run_forever calls on_error with the exception, then tears
\* down and calls on_close without a status code.  When the error callback
\* raises out of on_error the teardown may not be reached.
LibTransportError(c, error, eOut, teardown, dOut) ==
    /\ conn[c] \in {"connecting", "open"}
    /\ LET e == HandlerOnError(LooksNormal(error.msg), eOut)
           k == HandlerOnClose(FALSE, eOut, dOut) IN
         last' = [Idle EXCEPT !.op = "transport_error", !.c = c,
                              !.inv = IF e.escaped /\ ~teardown THEN e.inv
                                      ELSE e.inv \o k.inv,
                              !.escaped = e.escaped \/ k.escaped,
                              !.alive = FALSE, !.err = error]
    /\ conn' = [conn EXCEPT ![c] = "closed"]
    /\ UNCHANGED <<sess, ws, thread, inbox, nframes, cb, phase, pending, sender, req, wire, held>>

\* The loop ends without an error: the remote sent a close frame
\* (code is its status code), or WebSocketApp.close() was called on this
\* side (code "None"); the
\* teardown calls on_close.
LibClose(c, code, eOut, dOut) ==
    /\ conn[c] \in {"open", "closing"}
    /\ code # "None" => conn[c] = "open"
    /\ LET k == HandlerOnClose(code # "None", eOut, dOut) IN
         last' = [Idle EXCEPT !.op = "on_close", !.c = c, !.inv = k.inv,
                              !.escaped = k.escaped, !.alive = FALSE,
                              !.code = code]
    /\ conn' = [conn EXCEPT ![c] = "closed"]
    /\ UNCHANGED <<sess, ws, thread, inbox, nframes, cb, phase, pending, sender, req, wire, held>>

----------------------------------------------------------------------------------------------------------------------------------------
(* The specifications.                                                     *)

Handlers == 0..MaxHandler

\* Spec: the life of a session object, from the handshake on: the calls of
\* the application thread and the opening, failing and closing of the
\* connections.  The application registers the three lifecycle callbacks;
\* the remote sends no text frame (the receive path is SpecDispatch).
LifeSlots == LifecycleSlots

Next ==
    \/ \E st \in HttpStatuses, body \in Bodies : ClientConnect(st, body)
    \/ ConnectAndStart
    \/ SendAudioBinary
    \/ SendAudioJson
    \/ SendStopSignal
    \/ \E closeRaises \in BOOLEAN : Disconnect(closeRaises)
    \/ \E slot \in LifeSlots, h \in Handlers : SetCallback(slot, h)
    \/ GetSessionInfo
    \/ \E c \in Conns, oOut \in Outcomes, r \in Reactions :
            LibOpen(c, oOut, r.lib, r.normal, r.eOut)
    \/ \E c \in Conns, error \in Errors, eOut \in Outcomes,
          teardown \in BOOLEAN, dOut \in Outcomes :
            LibTransportError(c, error, eOut, teardown, dOut)
    \/ \E c \in Conns, code \in CloseCodes, eOut \in Outcomes, dOut \in Outcomes :
            LibClose(c, code, eOut, dOut)

Spec == Init /\ [][Next]_vars

\* SpecDispatch: the receive path of one connected session.  It starts in
\* the state reached by connect(), connect_and_start() and the opening of
\* the socket; the application registers and replaces handlers while the
\* remote sends frames of every text of FrameTexts.
DispatchSlots == { "_on_transcript", "_on_translation", "_on_error" }

\* The handlers the application registers on a slot: on the transcript
\* slot it replaces one handler object by another.
HandlersOf(slot) == IF slot = "_on_transcript" THEN 0..MaxReplaced ELSE Handlers

DispatchInit ==
    /\ sess = [id |-> "sess-1", url |-> "wss://sess-1"]
    /\ ws = 1
    /\ thread = 1
    /\ conn = [c \in Conns |-> IF c = 1 THEN "open" ELSE "none"]
    /\ inbox = [c \in Conns |-> << >>]
    /\ nframes = 0
    /\ cb = [s \in Slots |-> 0]
    /\ phase = "started"
    /\ last = Idle
    /\ pending = 0
    /\ sender = "idle"
    /\ req = DefaultRequest
    /\ wire = << >>
    /\ held = NoHeld

DispatchNext ==
    \/ \E slot \in DispatchSlots : \E h \in HandlersOf(slot) : SetCallback(slot, h)
    \/ \E c \in Conns, text \in FrameTexts : ServerSend(c, text)
    \/ \E c \in Conns, hOut \in Outcomes, eOut \in Outcomes, r \in Reactions :
            LibMessage(c, hOut, eOut, r.lib, r.normal, r.eOut)
    \/ \E c \in Conns, code \in CloseCodes, eOut \in Outcomes, dOut \in Outcomes :
            LibClose(c, code, eOut, dOut)

SpecDispatch == DispatchInit /\ [][DispatchNext]_vars

\* SpecJson: an application builds a request, field by field, from
\* InitializeSessionRequest() and serializes it at any point.
JsonNext ==
    \/ \E k \in ReqFields : \E v \in FieldValues(k) : SetField(k, v)
    \/ ToJson

SpecJson == Init /\ [][JsonNext]_vars

\* SpecHttp: the HTTP calls of the two clients, with connect() calls of
\* several threads on the one live client, and the connections of the
\* session: opened by connect_and_start, ended by the remote or by a
\* transport error.  No callback is registered.
HttpNext ==
    \/ ConnectSend
    \/ \E st \in HttpStatuses, body \in Bodies : ConnectReceive(st, body)
    \/ \E op \in ParsingOps \cup DeleteOps, st \in HttpStatuses, body \in Bodies,
          valid \in BOOLEAN : RestCall(op, st, body, valid)
    \/ UploadUnreadable
    \/ ConnectAndStart
    \/ \E c \in Conns, oOut \in Outcomes, r \in Reactions :
            LibOpen(c, oOut, r.lib, r.normal, r.eOut)
    \/ \E c \in Conns, error \in Errors, eOut \in Outcomes,
          teardown \in BOOLEAN, dOut \in Outcomes :
            LibTransportError(c, error, eOut, teardown, dOut)
    \/ \E c \in Conns, code \in CloseCodes, eOut \in Outcomes, dOut \in Outcomes :
            LibClose(c, code, eOut, dOut)

SpecHttp == Init /\ [][HttpNext]_vars

\* SpecRace: the application thread drives the lifecycle of the session
\* while a second thread sends; the steps of a send interleave with
\* every other step.
RaceNext ==
    \/ \E st \in HttpStatuses, body \in Bodies : ClientConnect(st, body)
    \/ ConnectAndStart
    \/ \E op \in SendOps : SendGuard(op)
    \/ SendWrite
    \/ \E closeRaises \in BOOLEAN : Disconnect(closeRaises)
    \/ \E c \in Conns, oOut \in Outcomes, r \in Reactions :
            LibOpen(c, oOut, r.lib, r.normal, r.eOut)
    \/ \E c \in Conns, error \in Errors, eOut \in Outcomes,
          teardown \in BOOLEAN, dOut \in Outcomes :
            LibTransportError(c, error, eOut, teardown, dOut)
    \/ \E c \in Conns, code \in CloseCodes, eOut \in Outcomes, dOut \in Outcomes :
            LibClose(c, code, eOut, dOut)

SpecRace == Init /\ [][RaceNext]_vars

\* SpecStart: connect_and_start with its sleep: while the caller sleeps
\* the remote accepts the connection, or the connection fails, or nothing
\* happens.  The application registers the connected callback and sends
\* the stop signal at any time.
StartNext ==
    \/ \E st \in HttpStatuses, body \in Bodies : ClientConnect(st, body)
    \/ StartBegin
    \/ StartReturn
    \/ SendStopSignal
    \/ \E h \in Handlers : SetCallback("_on_connected", h)
    \/ \E c \in Conns, oOut \in Outcomes, r \in Reactions :
            LibOpen(c, oOut, r.lib, r.normal, r.eOut)
    \/ \E c \in Conns, error \in Errors, eOut \in Outcomes,
          teardown \in BOOLEAN, dOut \in Outcomes :
            LibTransportError(c, error, eOut, teardown, dOut)
    \/ \E c \in Conns, code \in CloseCodes, eOut \in Outcomes, dOut \in Outcomes :
            LibClose(c, code, eOut, dOut)

SpecStart == Init /\ [][StartNext]_vars

ByteValues == { "a", "b" }

Bufs == UNION { [1..n -> ByteValues] : n \in 0..MaxBuf }

\* size arguments: up to one more than the longest buffer.
Sizes == 0..(MaxBuf + 1)

\* SpecAudio: the application sends buffers of every content and size
\* argument on a session that starts connected; the remote may close and
\* the application may disconnect.
AudioNext ==
    \/ \E buf \in Bufs, size \in Sizes : SendAudioBinaryFrame(buf, size)
    \/ \E closeRaises \in BOOLEAN : Disconnect(closeRaises)
    \/ \E c \in Conns, code \in CloseCodes, eOut \in Outcomes, dOut \in Outcomes :
            LibClose(c, code, eOut, dOut)

SpecAudio == DispatchInit /\ [][AudioNext]_vars

\* SpecWire: one connected session whose application thread streams
\* chunks of audio and sends the stop signal, while the remote answers with
\* the stop acknowledgment and the final transcript and then closes.
WireChunk == [i \in 1..MaxBuf |-> "a"]

WireSlots == { "_on_final_transcript", "_on_stop_ack" }

WireTexts ==
    [json : {"object"}, type : {"stop_recording", "post_final_transcript"},
     shape : {"full"}]

WireNext ==
    \/ \E slot \in WireSlots, h \in Handlers : SetCallback(slot, h)
    \/ SendAudioBinaryFrame(WireChunk, Len(WireChunk))
    \/ SendStopSignalFrame
    \/ \E c \in Conns, text \in WireTexts : ServerSend(c, text)
    \/ \E c \in Conns, hOut \in Outcomes, eOut \in Outcomes, r \in Reactions :
            LibMessage(c, hOut, eOut, r.lib, r.normal, r.eOut)
    \/ \E c \in Conns, code \in CloseCodes, eOut \in Outcomes, dOut \in Outcomes :
            LibClose(c, code, eOut, dOut)

SpecWire == DispatchInit /\ [][WireNext]_vars

\* The routing of on_message over all 16 event kinds: the session is
\* connected and the application has registered a handler for every kind,
\* or for every kind but one of those whose names resemble another's; the
\* remote sends well-formed frames of every kind and of an unknown kind.
RouteDropped ==
    { "speech_start", "speech_end", "transcript", "translation",
      "post_transcript", "post_final_transcript" }

RouteRegs == { EventTypes } \cup { EventTypes \ { t } : t \in RouteDropped }

RouteTexts == [json : { "object" }, type : EventTypes \cup { "bogus" }, shape : { "full" }]

RouteInit ==
    /\ sess = [id |-> "sess-1", url |-> "wss://sess-1"]
    /\ ws = 1
    /\ thread = 1
    /\ conn = [c \in Conns |-> IF c = 1 THEN "open" ELSE "none"]
    /\ inbox = [c \in Conns |-> << >>]
    /\ nframes = 0
    /\ \E regs \in RouteRegs :
          cb = [s \in Slots |->
                  IF s \in { SetterSlot(t) : t \in regs } THEN 1 ELSE 0]
    /\ phase = "started"
    /\ last = Idle
    /\ pending = 0
    /\ sender = "idle"
    /\ req = DefaultRequest
    /\ wire = << >>
    /\ held = NoHeld

RouteNext ==
    \/ \E c \in Conns, text \in RouteTexts : ServerSend(c, text)
    \/ \E c \in Conns, hOut \in Outcomes, eOut \in Outcomes, r \in Reactions :
            LibMessage(c, hOut, eOut, r.lib, r.normal, r.eOut)
    \/ \E c \in Conns, code \in CloseCodes, eOut \in Outcomes, dOut \in Outcomes :
            LibClose(c, code, eOut, dOut)

SpecRoute == RouteInit /\ [][RouteNext]_vars

\* WSController of the example application: it holds at most one session
\* (sess; NoSession is None) and registers the same callbacks on every
\* session it creates.
CtlSlots ==
    { "_on_connected", "_on_disconnected", "_on_error", "_on_transcript",
      "_on_translation", "_on_start_session", "_on_start_recording",
      "_on_end_recording", "_on_end_session" }

StopFrame == [opcode |-> "text", text |-> StopPayload]

\* WSController.connect: with a previous session, `try: send_stop_signal();
\* disconnect() except Exception: print`, then session = None; then
\* client.connect (its exception leaves connect, session stays None), the
\* callback setters, and connect_and_start on the new session, whose
\* _thread is None.  last.ret tells whether disconnect() ran on the
\* previous session; last.c is the connection of that session.
ControllerConnect(status, body, closeRaises) ==
    LET stop    == SendResult("send_stop_signal", ws)
        reached == sess # NoSession /\ stop.raised = "none"
        conn1   == IF reached /\ ws # 0
                   THEN [conn EXCEPT ![ws] = AppClose(@, closeRaises)] ELSE conn
        co      == ConnectOutcome(status, body)
        c       == NumConns + 1
    IN  /\ NumConns < MaxConns
        /\ wire' = IF sess # NoSession /\ stop.tx = 1
                   THEN Append(wire, StopFrame) ELSE wire
        /\ sess' = co.session
        /\ IF co.raised = "none"
           THEN /\ conn' = [conn1 EXCEPT ![c] = "connecting"]
                /\ ws' = c
                /\ thread' = c
                /\ cb' = [s \in Slots |-> IF s \in CtlSlots THEN 1 ELSE 0]
                /\ phase' = "started"
           ELSE /\ conn' = conn1
                /\ ws' = 0
                /\ thread' = 0
                /\ cb' = cb
                /\ phase' = "new"
        /\ last' = [Idle EXCEPT !.op = "ctl_connect", !.c = ws, !.http = status,
                                !.raised = co.raised,
                                !.ret = IF sess = NoSession THEN "none"
                                        ELSE IF reached THEN "disconnected"
                                        ELSE "skipped"]
        /\ UNCHANGED <<inbox, nframes, pending, sender, req, held>>

\* WSController.stop_and_close: send_stop_signal inside try/except pass;
\* in the finally clause get_session_info, disconnect and the deletion of
\* the result (its failure is swallowed), and in the inner finally
\* session = None.
ControllerStopAndClose(closeRaises) ==
    LET stop == SendResult("send_stop_signal", ws) IN
    /\ IF sess = NoSession
       THEN /\ last' = [Idle EXCEPT !.op = "ctl_stop_and_close"]
            /\ UNCHANGED <<conn, wire>>
       ELSE /\ wire' = IF stop.tx = 1 THEN Append(wire, StopFrame) ELSE wire
            /\ conn' = IF ws = 0 THEN conn
                       ELSE [conn EXCEPT ![ws] = AppClose(@, closeRaises)]
            /\ last' = [Idle EXCEPT !.op = "ctl_stop_and_close", !.c = ws,
                                    !.info = SessionInfo(sess),
                                    !.raised = IF ws # 0 /\ closeRaises
                                               THEN "Exception" ELSE "none",
                                    !.ret = "disconnected"]
    /\ sess' = NoSession
    /\ ws' = 0
    /\ thread' = 0
    /\ phase' = "disconnected"
    /\ UNCHANGED <<inbox, nframes, cb, pending, sender, req, held>>

CtlNext ==
    \/ \E st \in HttpStatuses, body \in Bodies, closeRaises \in BOOLEAN :
            ControllerConnect(st, body, closeRaises)
    \/ \E closeRaises \in BOOLEAN : ControllerStopAndClose(closeRaises)
    \/ \E c \in Conns, oOut \in Outcomes, r \in Reactions :
            LibOpen(c, oOut, r.lib, r.normal, r.eOut)
    \/ \E c \in Conns, error \in Errors, eOut \in Outcomes,
          teardown \in BOOLEAN, dOut \in Outcomes :
            LibTransportError(c, error, eOut, teardown, dOut)
    \/ \E c \in Conns, code \in CloseCodes, eOut \in Outcomes, dOut \in Outcomes :
            LibClose(c, code, eOut, dOut)

SpecCtl == Init /\ [][CtlNext]_vars

\* The receive loop against disconnect(): the session is connected, the
\* application registers handlers and calls disconnect() from its own
\* thread while the loop thread (started at connect_and_start, never
\* joined) reads and dispatches frames.  The loop thread ends (LibClose)
\* only from the top of its loop.
LoopSlots == { "_on_transcript", "_on_error" }

LoopNext ==
    \/ \E slot \in LoopSlots, h \in Handlers : SetCallback(slot, h)
    \/ \E c \in Conns, text \in FrameTexts : ServerSend(c, text)
    \/ \E c \in Conns : LoopRead(c)
    \/ \E hOut \in Outcomes, eOut \in Outcomes, r \in Reactions :
            LoopDispatch(hOut, eOut, r.lib, r.normal, r.eOut)
    \/ \E closeRaises \in BOOLEAN : Disconnect(closeRaises)
    \/ \E c \in Conns, code \in CloseCodes, eOut \in Outcomes, dOut \in Outcomes :
            held = NoHeld /\ LibClose(c, code, eOut, dOut)

SpecLoop == DispatchInit /\ [][LoopNext]_vars

----------------------------------------------------------------------------
(* Properties.                                                             *)

\* The event handlers (not the error callback) a step invoked.
EventInvocations(l) == SelectSeq(l.inv, LAMBDA i : i.slot \in EventSlots)

ErrorInvocations(l) == SelectSeq(l.inv, LAMBDA i : i.slot = "_on_error")

\* C1: on a session on which connect_and_start was never called, or whose
\* last lifecycle call is a completed disconnect(), a send method returns
\* False, raises nothing and writes no frame.
C1_SendNotConnectedReturnsFalse ==
    (last.op \in SendOps /\ phase \in {"new", "disconnected"})
        => (last.ret = "False" /\ last.raised = "none" /\ last.tx = 0)

C1_Witness ==
    /\ last.op = "send_audio_binary"
    /\ phase = "disconnected"
    /\ NumConns > 0
    /\ last.ret = "False"

\* C2: a disconnect() made when the preceding lifecycle call was already a
\* disconnect() raises nothing and changes nothing: _ws is None before and
\* after it, and no connection changes state.
C2_DisconnectIdempotent ==
    [][(phase = "disconnected" /\ last'.op = "disconnect")
          => (last'.raised = "none" /\ ws = 0 /\ ws' = 0 /\ conn' = conn
              /\ thread' = thread /\ cb' = cb /\ sess' = sess)]_vars

C2_Witness ==
    /\ last.op = "disconnect"
    /\ last.c = 0
    /\ NumConns > 0
    /\ ws = 0

\* C3: on each connection the frames reach on_message in the order of the
\* wire, one per handler run: the frame just dispatched is older than every
\* frame still pending on that connection, and the only event handler the
\* run invokes is the one of that frame's type, at most once.
C3_DispatchInWireOrder ==
    last.op = "on_message" =>
        /\ \A i \in 1..Len(inbox[last.c]) : inbox[last.c][i].seq > last.frame.seq
        /\ Len(EventInvocations(last)) <= 1
        /\ \A i \in 1..Len(EventInvocations(last)) :
              EventInvocations(last)[i].slot = Route(last.frame.type)

C3_Witness ==
    /\ last.op = "on_message"
    /\ last.frame.seq = 2
    /\ last.frame.type = "translation"
    /\ Len(EventInvocations(last)) = 1
    /\ EventInvocations(last)[1].slot = "_on_translation"
    /\ nframes = MaxFrames

\* C4 (as claimed): after on_message has run on a frame that is not JSON,
\* the error callback, if one is registered, has been invoked, no event
\* handler has been invoked, and the receive loop is still running.
C4_InvalidJsonKeepsLoopAlive ==
    (last.op = "on_message" /\ last.frame.json = "invalid") =>
        /\ cb["_on_error"] # 0 => Len(ErrorInvocations(last)) >= 1
        /\ EventInvocations(last) = << >>
        /\ last.alive
        /\ conn[last.c] = "open"

\* C5: a JSON object whose type is missing or is none of the 16 event
\* types invokes no callback at all, raises nothing and leaves the loop
\* running.
C5_UnknownTypeIsNoOp ==
    (last.op = "on_message" /\ last.frame.json = "object"
        /\ last.frame.type \notin EventTypes) =>
        (last.inv = << >> /\ ~last.escaped /\ last.alive /\ conn[last.c] = "open")

C5_Witness ==
    /\ last.op = "on_message"
    /\ last.frame.json = "object"
    /\ last.frame.type = "bogus"
    /\ cb["_on_transcript"] # 0
    /\ cb["_on_translation"] # 0
    /\ cb["_on_error"] # 0

\* C6 (as claimed): when the event handler raises, the failure is forwarded
\* to the error callback (if registered) and no exception ends the receive
\* loop: it is still running, ready to dispatch the next frame.
C6_HandlerRaiseIsContained ==
    (last.op = "on_message" /\ EventInvocations(last) # << >>
        /\ EventInvocations(last)[1].out = "raise") =>
        /\ cb["_on_error"] # 0 => Len(ErrorInvocations(last)) >= 1
        /\ last.alive
        /\ conn[last.c] = "open"

\* C7 (as claimed): a frame of a known type that fails the validation of
\* its model is reported to the error callback (if registered), its event
\* handler is not invoked, and the receive loop is still running.
C7_MissingFieldIsReported ==
    (last.op = "on_message" /\ last.frame.json = "object"
        /\ last.frame.type \in EventTypes
        /\ ~Validates(last.frame.type, last.frame.shape)) =>
        /\ cb["_on_error"] # 0 => Len(ErrorInvocations(last)) >= 1
        /\ EventInvocations(last) = << >>
        /\ last.alive
        /\ conn[last.c] = "open"

\* The connections of the session whose socket is up or coming up.
Live == {c \in Conns : conn[c] \in {"connecting", "open"}}

\* C8 (as claimed): a session never has more than one connection with a
\* running receive loop.
C8_AtMostOneReceiveLoop == Cardinality(Live) <= 1

\* The session has reached closed: disconnect() was called, or the
\* connection it refers to has terminated.
SessionClosed == phase = "disconnected" \/ WsState(ws) = "closed"

\* C9 (as claimed): once the session is closed, no step creates a new
\* connection for it.
C9_NoRestartAfterClosed == [][SessionClosed => NumConns' = NumConns]_vars

\* C10 (as claimed): a session-creation request answered with HTTP 401
\* makes connect raise a GladiaError whose status_code is 401; no session
\* exists afterwards and no WebSocketApp has been created.
C10_Http401RaisesApiError401 ==
    (last.op = "connect" /\ last.http = 401) =>
        /\ last.raised = "GladiaError"
        /\ last.errStatus = 401
        /\ sess = NoSession
        /\ NumConns = 0

\* C11 (as claimed): every HTTP call (connect, get_result and delete_result
\* of the live client, upload, pre_recorded, get_result, get_results,
\* delete_result of the batch client) whose response has a status >= 400
\* raises a GladiaError and returns nothing.
C11_HttpErrorRaisesGladiaError ==
    (last.op \in HttpOps /\ last.http >= 400) =>
        (last.raised = "GladiaError" /\ last.ret = "none")

\* C12 (as claimed): whenever a feature flag of the request is False, the
\* body to_json produces has no member for that feature's sub-config,
\* whatever the sub-config field holds.
C12_DisabledFeatureConfigOmitted ==
    last.op = "to_json" =>
        \A f \in Features : req[f.flag] = "False" => f.config \notin Keys(last.body)

\* C14 (as claimed): a send whose guard ran before a disconnect() of the
\* other thread and whose write runs after it raises nothing: it returns
\* True or False.
C14_SendRacingDisconnectNeverRaises ==
    [][(sender \in SendOps /\ sender' = "idle" /\ phase = "disconnected")
          => (last'.raised = "none" /\ last'.ret \in {"True", "False"})]_vars

\* C15 (as claimed): the step of a transport error on the connection the
\* session refers to invokes the error callback (if one is registered),
\* and a send method called next returns False and raises nothing.
C15_TransportErrorClosesSession ==
    [][/\ (last'.op = "transport_error" /\ cb["_on_error"] # 0)
            => ErrorInvocations(last') # << >>
       /\ (last.op = "transport_error" /\ last.c = ws /\ last'.op \in SendOps)
            => (last'.ret = "False" /\ last'.raised = "none")]_vars

\* C16: no step changes the id or the url of a session object once the
\* handshake has produced it, and every get_session_info returns exactly
\* that id and url.
C16_SessionHandleImmutable ==
    [][HasSession =>
          /\ sess' = sess
          /\ last'.op = "get_session_info" => last'.info = sess]_vars

C16_Witness ==
    /\ last.op = "get_session_info"
    /\ last.info = [id |-> "sess-1", url |-> "wss://sess-1"]
    /\ phase = "disconnected"
    /\ NumConns = MaxConns
    /\ cb["_on_error"] # 0

\* The sequence numbers of the frames pending on connection c.
PendingSeqs(c) == { inbox[c][i].seq : i \in 1..Len(inbox[c]) }

\* C17: a frame of a known type whose handler slot is None invokes no
\* callback at all, not even the error callback, and raises nothing; the
\* frame on_message is given is always one that was pending, and a frame
\* that has left the pending frames never comes back, so no later
\* registration can have it delivered.
C17_UnregisteredKindIsDropped ==
    [][/\ last'.op = "on_message" =>
            /\ last'.frame.seq \in PendingSeqs(last'.c)
            /\ last'.frame.seq \notin { inbox'[last'.c][i].seq :
                                          i \in 1..Len(inbox'[last'.c]) }
            /\ (last'.frame.json = "object" /\ last'.frame.type \in EventTypes
                   /\ cb[Route(last'.frame.type)] = 0)
                  => (last'.inv = << >> /\ ~last'.escaped /\ last'.alive)
       /\ \A c \in Conns, k \in 1..nframes :
            k \notin PendingSeqs(c) =>
                k \notin { inbox'[c][i].seq : i \in 1..Len(inbox'[c]) }]_vars

C17_Witness ==
    /\ last.op = "on_message"
    /\ last.frame.type = "transcript"
    /\ last.frame.shape = "nodata"
    /\ cb["_on_transcript"] = 0
    /\ cb["_on_error"] # 0
    /\ cb["_on_translation"] # 0
    /\ last.inv = << >>
    /\ inbox[last.c] # << >>

\* C18: a setter leaves its argument in its slot and changes no other
\* slot, nothing else changes a slot, and a frame is handed to the handler
\* its slot holds when on_message runs: to the handler of the last
\* registration only, once, and the frame then leaves the pending frames.
C18_LastRegistrationWins ==
    [][/\ last'.op = "set_callback" =>
            cb' = [cb EXCEPT ![last'.slot] = last'.h]
       /\ last'.op # "set_callback" => cb' = cb
       /\ last'.op = "on_message" =>
            /\ Len(EventInvocations(last')) <= 1
            /\ \A i \in 1..Len(EventInvocations(last')) :
                  /\ EventInvocations(last')[i].h = cb[Route(last'.frame.type)]
                  /\ EventInvocations(last')[i].h # 0
            /\ last'.frame.seq \notin { inbox'[last'.c][i].seq :
                                          i \in 1..Len(inbox'[last'.c]) }]_vars

C18_Witness ==
    /\ last.op = "on_message"
    /\ last.frame.seq = 2
    /\ last.frame.type = "transcript"
    /\ cb["_on_transcript"] = 2
    /\ Len(EventInvocations(last)) = 1
    /\ EventInvocations(last)[1].h = 2

\* C19 (as claimed): at no time are two session-creation requests of the
\* one client awaiting their response.
C19_OneHandshakeInFlight == pending <= 1

C21_TranslationHasTargetLanguages ==
    (last.op = "to_json" /\ req["realtime_processing"] = "object"
        /\ req["realtime_processing.translation"] = "True") =>
        /\ "realtime_processing.translation_config" \in Keys(last.body)
        /\ "realtime_processing.translation_config.target_languages"
               \in Keys(last.body)

\* C29 (as claimed): no member of the body of to_json, at any depth, is
\* null or holds a null item, and no member is named region.
C29_BodyHasNoNullNoRegion ==
    last.op = "to_json" =>
        \A m \in last.body : ~HoldsNull(m[2]) /\ m[1] # "region"

\* C22 (as claimed): whenever connect_and_start has returned True, the
\* connection it started is open.
C22_TrueOnlyWhenOpen ==
    (last.op = "connect_and_start" /\ last.ret = "True") => conn[last.c] = "open"

\* C23: a caller inside connect_and_start can always return, whatever the
\* state of the connection (not accepted yet, failed, open); and
\* send_stop_signal can always be completed at once and its step leaves
\* the connection and the pending frames as they are: it waits neither for
\* a frame nor for the closure.
C23_BoundedWaitNoDrain ==
    [][/\ phase = "starting" => ENABLED StartReturn
       /\ HasSession => ENABLED SendStopSignal
       /\ last'.op = "send_stop_signal" =>
            (conn' = conn /\ inbox' = inbox /\ nframes' = nframes /\ ws' = ws)]_vars

C23_Witness ==
    /\ last.op = "connect_and_start"
    /\ last.ret = "True"
    /\ conn[last.c] = "connecting"
    /\ NumConns = MaxConns

BinaryFrame == [opcode |-> "binary", text |-> ""]

\* C24: every send that returns True has put exactly one frame at the end
\* of what the socket carries (a binary frame for send_audio_binary, the
\* text frame {"type": "stop_recording"} for send_stop_signal) and no
\* other step writes a frame, so three audio sends and a stop made in turn
\* by one thread leave three binary frames and then the stop frame; and a
\* well-formed final-transcript frame that on_message is given, with a
\* handler registered for it, invokes that handler exactly once.
C24_FramesInCallOrder ==
    [][/\ (last'.op = "send_audio_binary" /\ last'.ret = "True")
            => wire' = Append(wire, BinaryFrame)
       /\ (last'.op = "send_stop_signal" /\ last'.ret = "True")
            => wire' = Append(wire, [opcode |-> "text",
                                     text |-> "{\"type\": \"stop_recording\"}"])
       /\ ~(last'.op \in SendOps /\ last'.ret = "True") => wire' = wire
       /\ (last'.op = "on_message" /\ last'.frame.type = "post_final_transcript"
             /\ Validates(last'.frame.type, last'.frame.shape)
             /\ cb["_on_final_transcript"] # 0)
            => /\ Len(EventInvocations(last')) = 1
               /\ EventInvocations(last')[1].slot = "_on_final_transcript"]_vars

C24_Witness ==
    /\ wire = << BinaryFrame, BinaryFrame, BinaryFrame,
                 [opcode |-> "text", text |-> "{\"type\": \"stop_recording\"}"] >>
    /\ last.op = "on_message"
    /\ last.frame.type = "post_final_transcript"
    /\ Len(EventInvocations(last)) = 1
    /\ nframes = 1

\* The stop signal is on the wire.
StopSent == \E i \in 1..Len(wire) : wire[i].opcode = "text"

\* C25: the step of send_stop_signal leaves the connection, the pending
\* frames and the registry as they are, and every well-formed frame that
\* on_message is given after the stop signal was sent, and whose type has
\* a handler registered, is handed to that handler.
C25_ReceivePathSurvivesStop ==
    [][/\ last'.op = "send_stop_signal" =>
            (conn' = conn /\ inbox' = inbox /\ cb' = cb /\ ws' = ws)
       /\ (last'.op = "on_message" /\ StopSent
             /\ last'.frame.json = "object"
             /\ Route(last'.frame.type) # "none"
             /\ cb[Route(last'.frame.type)] # 0
             /\ Validates(last'.frame.type, last'.frame.shape))
            => /\ Len(EventInvocations(last')) = 1
               /\ EventInvocations(last')[1].slot = Route(last'.frame.type)
               /\ EventInvocations(last')[1].h = cb[Route(last'.frame.type)]]_vars

C25_Witness ==
    /\ StopSent
    /\ last.op = "on_message"
    /\ last.frame.type = "stop_recording"
    /\ last.frame.seq = 1
    /\ Len(EventInvocations(last)) = 1
    /\ EventInvocations(last)[1].slot = "_on_stop_ack"
    /\ inbox[last.c] # << >>
    /\ conn[last.c] = "open"

\* C30: on a connected session a send_audio_binary(buf, size) with
\* size <= len(buf) writes exactly one frame, binary, whose payload is the
\* first size bytes of buf and nothing else.
C30_BinaryPayloadIsPrefix ==
    [][(last'.op = "send_audio_binary" /\ WsState(ws) = "open"
          /\ last'.size <= Len(last'.buf))
        => /\ last'.ret = "True"
           /\ last'.tx = 1
           /\ Len(wire') = Len(wire) + 1
           /\ last'.opcode = "binary"
           /\ Len(last'.payload) = last'.size
           /\ \A i \in 1..last'.size : last'.payload[i] = last'.buf[i]]_vars

C30_Witness ==
    /\ last.op = "send_audio_binary"
    /\ last.buf = << "a", "b" >>
    /\ last.size = 1
    /\ last.payload = << "a" >>
    /\ last.ret = "True"

\* C26 (as claimed): a send_audio_binary or send_stop_signal made after
\* connect_and_start on a session whose socket is not open (still
\* connecting, failed, or closed by the remote) returns False and raises
\* nothing.
C26_SendNotConnectedReturnsFalse ==
    (/\ last.op \in { "send_audio_binary", "send_stop_signal" }
     /\ last.c # 0
     /\ conn[last.c] \in { "connecting", "closed" })
        => (last.ret = "False" /\ last.raised = "none")

\* C27 (as claimed): a transport error that is not the notification of a
\* normal closure invokes the registered error callback exactly once,
\* whatever its text contains.
C27_TransportErrorReachesCallback ==
    (last.op = "transport_error" /\ ~last.err.closure /\ cb["_on_error"] # 0)
        => Len(ErrorInvocations(last)) = 1

\* C28 (as claimed): a normal closure, whether it arrives at on_error as
\* the notification of the close frame or at on_close with code 1000,
\* invokes no error callback: only the disconnected callback runs.
C28_NormalClosureIsNotAnError ==
    (\/ (last.op = "on_close" /\ last.code = "1000")
     \/ (last.op = "transport_error" /\ last.err.closure))
        => \A i \in 1..Len(last.inv) : last.inv[i].slot = "_on_disconnected"

\* C31 (as claimed): connect returns a session only on a response below
\* 400 that carries a non-empty id and a non-empty url, and the session it
\* returns has that id and url; on every other response it raises, a
\* GladiaError when the status is >= 400 and a ValueError (of which the
\* JSON decode error is a kind) otherwise.
C31_ConnectReturnsValidSessionOrRaises ==
    last.op = "connect" =>
        /\ last.ret = "session" =>
              (last.http < 400 /\ sess.id # "" /\ sess.url # "")
        /\ (last.ret # "session" /\ last.http >= 400) => last.raised = "GladiaError"
        /\ (last.ret # "session" /\ last.http < 400) =>
              last.raised \in { "ValueError", "JSONDecodeError" }

\* C32 (as claimed): every HTTP call answered with a status >= 400 raises
\* a GladiaError that carries a status code and a message, whatever the
\* body of the response is.
C32_ErrorShapeUniform ==
    (last.op \in HttpOps /\ last.http >= 400) =>
        (last.raised = "GladiaError" /\ last.errStatus # 0 /\ last.errMsg # "")

\* C33 (as claimed): on_message lets no exception out for a frame that
\* parses as JSON, object or not, and the receive loop is still running
\* afterwards, ready for the next frame.
C33_JsonFrameNeverRaises ==
    (last.op = "on_message" /\ last.frame.json \in { "object", "nonobject" }) =>
        (~last.escaped /\ last.alive /\ conn[last.c] = "open")

\* C34: a run of on_message invokes at most one event handler, and that
\* handler is the one the setter of the frame's own kind has stored; a
\* frame of a kind without a registered handler invokes none, whatever
\* handlers of other kinds are registered.
C34_OnlyTheHandlerOfTheFramesKind ==
    last.op = "on_message" =>
        /\ Len(EventInvocations(last)) <= 1
        /\ \A i \in 1..Len(EventInvocations(last)) :
              /\ EventInvocations(last)[i].slot = SetterSlot(last.frame.type)
              /\ EventInvocations(last)[i].h = cb[SetterSlot(last.frame.type)]
        /\ (last.frame.type \in EventTypes /\ cb[SetterSlot(last.frame.type)] = 0)
              => EventInvocations(last) = << >>

C34_Witness ==
    /\ last.op = "on_message"
    /\ last.frame.type = "post_transcript"
    /\ Len(EventInvocations(last)) = 1
    /\ EventInvocations(last)[1].slot = "_on_post_transcript"
    /\ cb["_on_final_transcript"] # 0
    /\ cb["_on_speech_start"] = 0
    /\ cb["_on_speech_end"] # 0

\* The steps in which a handler of connect_and_start runs.
LoopOps == { "on_open", "on_message", "transport_error", "on_close" }

\* C35 (as claimed): the handler run that follows a disconnect() that
\* closed the connection and returned invokes no event handler, no error
\* callback and no connected callback (the disconnected callback alone
\* may still run).
C35_NoCallbackAfterDisconnect ==
    [][(last.op = "disconnect" /\ last.c # 0 /\ last.raised = "none"
            /\ last'.op \in LoopOps)
          => \A i \in 1..Len(last'.inv) : last'.inv[i].slot = "_on_disconnected"]_vars

\* The invocations of the disconnected callback in a step.
DisconnectedInvocations(l) ==
    SelectSeq(l.inv, LAMBDA i : i.slot = "_on_disconnected")

C37_RaisingErrorCallbackIsContained ==
    (/\ last.op = "on_message"
     /\ last.frame.json \in { "invalid", "object" }
     /\ ErrorInvocations(last) # << >>
     /\ ErrorInvocations(last)[1].out = "raise")
        => (~last.escaped /\ last.alive /\ conn[last.c] = "open")

\* C38: every step that creates a WebSocket connection gives it the
\* User-Agent header and nothing else, no header of it holds the API key,
\* and the address it connects to is the url the handshake returned.
C38_WebSocketCarriesNoApiKey ==
    [][NumConns' > NumConns =>
          /\ last'.headers = { << "User-Agent", UserAgent >> }
          /\ \A h \in last'.headers : h[2] # ApiKey
          /\ last'.url = sess.url
          /\ last'.url # ApiKey]_vars

C38_Witness ==
    /\ last.op = "connect_and_start"
    /\ NumConns = MaxConns
    /\ last.url = "wss://sess-1"
    /\ last.headers # {}

\* C39 (as claimed): at most one connection of the controller's sessions is
\* live at any time; a WSController.connect made while a previous session
\* exists executes disconnect() on that session, also when its stop signal
\* fails; and stop_and_close executes disconnect() on the session, if
\* there is one, and leaves the controller without a session.
C39_ControllerKeepsOneLiveSession ==
    [][/\ last'.op \in { "ctl_connect", "ctl_stop_and_close" } =>
             Cardinality({ c \in Conns : conn'[c] \in { "connecting", "open" } }) <= 1
       /\ (last'.op = "ctl_connect" /\ sess # NoSession) => last'.ret = "disconnected"
       /\ last'.op = "ctl_stop_and_close" =>
             /\ sess' = NoSession
             /\ sess # NoSession => last'.ret = "disconnected"]_vars

============================================================================
